---- MODULE Spec2Model ----
(***************************************************************************)
(* Token-based authentication core of Forward_Africa_Frontend:             *)
(*   - the Express routes POST /auth/login, /auth/refresh, /auth/logout    *)
(*     (backend/routes/secureRoutes.js),                                   *)
(*   - the middleware they use: rateLimit, auditLog, authenticateToken,    *)
(*     generateToken, generateRefreshToken, verifyRefreshToken             *)
(*     (backend/middleware/auth.js, kept as unnamed/part_009),             *)
(*   - the Next.js login proxy with its per-email attempt map              *)
(*     (pages/api/auth/login.ts, kept as unnamed/part_003).                *)
(*                                                                         *)
(* Time is counted in seconds: Date.now() is clock * 1000, MySQL NOW() is  *)
(* clock, and a token's iat is Math.floor(Date.now() / 1000) = clock.      *)
(* Every handler is cut at its awaits: one action runs the JavaScript up   *)
(* to the next await together with the SQL statement that await waits for. *)
(***************************************************************************)
EXTENDS Integers, FiniteSets, Sequences, TLC

\* ------------------------------------------------------------------ bounds
\* Requests received in one run.
MaxRequests == 3
\* The instants the clock takes after time 0: w rate-limit windows plus j
\* seconds, for w in 1..MaxWindows and j in 0..MaxOffset.
MaxWindows == 1
MaxOffset == 1

\* The entries of a stored permission list: 0..MaxEntries of them.
MaxEntries == 2

\* -------------------------------------------------------- program constants
\* secureRoutes.js:43  rateLimit(5, 15 * 60 * 1000)
LOGIN_MAX_REQUESTS == 5
\* secureRoutes.js:178 rateLimit(10, 15 * 60 * 1000)
REFRESH_MAX_REQUESTS == 10
\* the window of both, 15 * 60 * 1000 ms, in seconds
RATE_WINDOW == 15 * 60
\* secureRoutes.js:89  if (user.failed_login_attempts >= 5)
FAILED_LOGIN_LIMIT == 5
\* secureRoutes.js:90  const lockoutTime = 15 * 60 * 1000, in seconds
lockoutTime == 15 * 60
\* part_003:43-44 (login proxy)
MAX_ATTEMPTS == 5
LOCKOUT_DURATION == 15 * 60
\* part_009:256-257  '24h' and '7d', in seconds
JWT_EXPIRES_IN == 24 * 60 * 60
REFRESH_TOKEN_EXPIRES_IN == 7 * 24 * 60 * 60

\* ------------------------------------------------------------------ domains
Users == {1}
\* "a@x" is the e-mail of account 1; "nobody@x" names no account.
Emails == {"a@x", "nobody@x"}
Passwords == {"good", "bad"}
\* The address a direct caller has, and the address of the login proxy, which
\* calls the backend from its own host (part_003:106).
ClientIP == "client"
ProxyIP == "proxy"
IPs == {ClientIP, ProxyIP}
Reqs == {1, 2}
\* Instants of the clock: time 0, exactly one 15-minute window later, and one
\* second after that.
Instants == {0} \cup {w * RATE_WINDOW + j : w \in 1..MaxWindows, j \in 0..MaxOffset}
\* What a caller of login sends: the right secret, a wrong one, an unknown e-mail.
\* The role account 1 is created with, and one an administrator may give it.
Roles == {"user", "content_manager"}
LoginInputs == {<<"a@x", "good">>, <<"a@x", "bad">>, <<"nobody@x", "bad">>}

\* ------------------------------------------------------------------- tokens
\* A JWT is modelled by its payload. HS256 signing is deterministic, so two
\* tokens with the same payload are the same string.
NoTok == [userId |-> 0, type |-> "null", iat |-> 0, role |-> "none"]
\* A string that is no JWT signed with JWT_SECRET.
Garbage == [userId |-> 0, type |-> "garbage", iat |-> 0, role |-> "none"]

generateToken(userId, role, now) ==
  [userId |-> userId, type |-> "access", iat |-> now, role |-> role]

generateRefreshToken(userId, now) ==
  [userId |-> userId, type |-> "refresh", iat |-> now, role |-> "none"]

\* exp, as jwt.sign sets it from expiresIn
TokenExp(tok) ==
  tok.iat + (IF tok.type = "refresh" THEN REFRESH_TOKEN_EXPIRES_IN ELSE JWT_EXPIRES_IN)

\* jwt.verify(token, JWT_SECRET): "ok", or the name of the error it throws
JwtVerify(tok, now) ==
  IF tok.type \notin {"access", "refresh"} THEN "JsonWebTokenError"
  ELSE IF now >= TokenExp(tok) THEN "TokenExpiredError"
  ELSE "ok"

validateUserId(userId) == userId > 0

\* TRUE when verifyRefreshToken returns the decoded payload, FALSE when it throws
verifyRefreshToken(tok, now) ==
  /\ tok # NoTok
  /\ JwtVerify(tok, now) = "ok"
  /\ tok.type = "refresh"
  /\ validateUserId(tok.userId)

\* bcrypt: the stored hash of account 1 is the hash of "good"
Hash(password) == <<"bcrypt", password>>
comparePassword(password, hash) == Hash(password) = hash

\* ------------------------------------------------------------- rate limiting
NoWindow == [count |-> 0, resetTime |-> 0]

\* The record rateLimit leaves for `key`, given the record it finds.
rateLimitRecordNoReset(rec, windowMs, now) ==
  IF rec = NoWindow THEN [count |-> 1, resetTime |-> now + windowMs]
  ELSE [rec EXCEPT !.count = rec.count + 1]

rateLimitRecord(rec, windowMs, now) ==
  IF rec = NoWindow THEN [count |-> 1, resetTime |-> now + windowMs]
  ELSE IF now > rec.resetTime THEN [count |-> 1, resetTime |-> now + windowMs]
  ELSE [rec EXCEPT !.count = rec.count + 1]

\* part_009:509: Math.ceil((record.resetTime - now) / 1000), the times in
\* milliseconds; here they are in seconds
retryAfter(rec, now) ==
  LET ms == (rec.resetTime - now) * 1000
  IN IF ms % 1000 = 0 THEN ms \div 1000 ELSE ms \div 1000 + 1

\* Whether rateLimit answers 429 after counting the request.
rateLimitExceeded(rec, maxRequests, windowMs, now) ==
  /\ rec # NoWindow
  /\ rateLimitRecord(rec, windowMs, now).count > maxRequests

\* ------------------------------------------------------ the proxy's attempts
NoAttempts == [count |-> 0, lastAttempt |-> 0]

\* rateLimit.checkRateLimit(email) of the proxy: TRUE when it throws RATE_LIMITED
checkRateLimitThrows(attempts, now) ==
  /\ attempts # NoAttempts
  /\ now - attempts.lastAttempt < LOCKOUT_DURATION
  /\ attempts.count >= MAX_ATTEMPTS

\* the entry checkRateLimit leaves (it deletes an entry older than the lockout)
checkRateLimitEntry(attempts, now) ==
  IF attempts # NoAttempts /\ ~(now - attempts.lastAttempt < LOCKOUT_DURATION)
  THEN NoAttempts ELSE attempts

\* rateLimit.recordAttempt(email, success)
recordAttempt(attempts, success, now) ==
  IF success THEN NoAttempts
  ELSE [count |-> attempts.count + 1, lastAttempt |-> now]

\* ------------------------------------------------ permissions (lib/permissions.js,
\* lib/rolePermissions.js)
\* A JavaScript value is a record [t, v]: t its kind, v a sequence holding
\* its content. A string is the sequence of its pieces (names, "," and " "),
\* so that split(',') and trim() act on it; a string that is JSON text is
\* kept as the value JSON.parse returns for it.
JsUndefined == [t |-> "undefined", v |-> <<>>]
JsNull == [t |-> "null", v |-> <<>>]
JsNumber(n) == [t |-> "number", v |-> <<n>>]
JsBoolean(b) == [t |-> "boolean", v |-> <<b>>]
JsString(pieces) == [t |-> "string", v |-> pieces]
JsonText(value) == [t |-> "json", v |-> <<value>>]
JsArray(items) == [t |-> "array", v |-> items]
JsObject(values) == [t |-> "object", v |-> values]
\* a value found on Object.prototype: a function, or the prototype itself
Inherited(key) == [t |-> "inherited", v |-> <<key>>]
\* an exception leaving the function
Thrown(error) == [t |-> "throw", v |-> <<error>>]

Range(s) == {s[i] : i \in DOMAIN s}

\* the property names every object literal inherits from Object.prototype
ObjectPrototype ==
  {"constructor", "__proto__", "toString", "toLocaleString", "valueOf",
   "hasOwnProperty", "isPrototypeOf", "propertyIsEnumerable"}

\* obj[key] for an object literal whose own properties are arrays
Get(obj, key) ==
  IF key \in DOMAIN obj THEN JsArray(obj[key])
  ELSE IF key \in ObjectPrototype THEN Inherited(key)
  ELSE JsUndefined

\* !value
Falsy(value) ==
  \/ value.t \in {"undefined", "null"}
  \/ value.t = "string" /\ value.v = <<>>
  \/ value.t = "number" /\ value.v = <<0>>
  \/ value.t = "boolean" /\ value.v = <<FALSE>>

\* the text of a string given by its pieces
RECURSIVE Join(_)
Join(pieces) ==
  IF pieces = <<>> THEN "" ELSE Head(pieces) \o Join(Tail(pieces))

\* String.prototype.split(',')
RECURSIVE Split(_)
Split(pieces) ==
  IF "," \notin Range(pieces) THEN <<pieces>>
  ELSE LET i == CHOOSE k \in DOMAIN pieces :
                  pieces[k] = "," /\ \A j \in 1..(k - 1) : pieces[j] # ","
       IN <<SubSeq(pieces, 1, i - 1)>> \o Split(SubSeq(pieces, i + 1, Len(pieces)))

\* String.prototype.trim()
RECURSIVE Trim(_)
Trim(pieces) ==
  IF pieces = <<>> THEN pieces
  ELSE IF Head(pieces) = " " THEN Trim(Tail(pieces))
  ELSE IF pieces[Len(pieces)] = " " THEN Trim(SubSeq(pieces, 1, Len(pieces) - 1))
  ELSE pieces

\* permissions.split(',').map(p => p.trim())
SplitTrim(pieces) ==
  LET parts == Split(pieces) IN [i \in DOMAIN parts |-> Join(Trim(parts[i]))]

\* Array.from(new Set(items)): the first occurrence of each item, in order
RECURSIVE Dedupe(_)
Dedupe(items) ==
  IF items = <<>> THEN <<>>
  ELSE LET rest == Dedupe(SubSeq(items, 1, Len(items) - 1))
           last == items[Len(items)]
       IN IF last \in Range(rest) THEN rest ELSE Append(rest, last)

\* rolePermissions.js:6-115
ROLE_PERMISSIONS ==
  [user |->
     <<"courses:view", "courses:take", "profile:edit", "certificates:view",
       "achievements:view", "progress:view">>,
   content_manager |->
     <<"courses:view", "courses:take", "analytics:view", "content:edit",
       "content:delete", "content:create", "instructors:manage",
       "media:upload", "content:review", "content:publish",
       "content:workflow", "profile:edit", "certificates:view",
       "achievements:view", "progress:view">>,
   community_manager |->
     <<"courses:view", "courses:take", "analytics:view", "users:manage",
       "users:view", "users:suspend", "users:activate", "users:ban",
       "users:unban", "community:moderate", "support:handle",
       "support:view_tickets", "support:respond_tickets",
       "users:view_activity", "profile:edit", "certificates:view",
       "achievements:view", "progress:view">>,
   user_support |->
     <<"courses:view", "courses:take", "analytics:view", "support:handle",
       "support:view_tickets", "support:respond_tickets",
       "support:close_tickets", "community:moderate_basic",
       "users:view_profile", "users:view_activity", "profile:edit",
       "certificates:view", "achievements:view", "progress:view">>,
   super_admin |->
     <<"courses:view", "courses:take", "analytics:view", "content:edit",
       "content:delete", "content:create", "instructors:manage",
       "media:upload", "content:review", "content:publish",
       "content:workflow", "users:manage", "users:view", "users:suspend",
       "users:activate", "users:ban", "users:unban", "community:moderate",
       "support:handle", "support:view_tickets", "support:respond_tickets",
       "support:close_tickets", "users:view_activity", "audit:view",
       "audit:export", "system:configure", "system:backup",
       "system:maintenance", "admins:create", "super_admins:manage",
       "security:configure", "database:manage", "profile:edit",
       "certificates:view", "achievements:view", "progress:view">>]

\* rolePermissions.js:122-124
getPermissionsForRole(role) ==
  LET found == Get(ROLE_PERMISSIONS, role)
  IN IF Falsy(found) THEN Get(ROLE_PERMISSIONS, "user") ELSE found

\* rolePermissions.js:186-192 and 204-210
roleHierarchy ==
  [super_admin |-> <<"user", "content_manager", "community_manager",
                     "user_support", "super_admin">>,
   community_manager |-> <<"user", "user_support">>,
   content_manager |-> <<"user">>,
   user_support |-> <<"user">>,
   user |-> <<>>]

\* rolePermissions.js:185-195: roleHierarchy[currentRole]?.includes(targetRole)
\* || false; ?. skips the call only for undefined, and a value inherited from
\* Object.prototype has no includes
canManageRole(currentRole, targetRole) ==
  LET entry == Get(roleHierarchy, currentRole)
  IN IF entry.t = "undefined" THEN JsBoolean(FALSE)
     ELSE IF entry.t = "array" THEN JsBoolean(targetRole \in Range(entry.v))
     ELSE Thrown("TypeError")

\* rolePermissions.js:203-213
getManageableRoles(role) ==
  LET entry == Get(roleHierarchy, role)
  IN IF Falsy(entry) THEN JsArray(<<>>) ELSE entry

\* permissions.js:234-290
RECURSIVE parsePermissions(_)
parsePermissions(permissions) ==
  IF Falsy(permissions) THEN <<>>
  ELSE IF permissions.t = "array" THEN
    [i \in DOMAIN permissions.v |->
       IF permissions.v[i] = "all" THEN "system:full_access"
       ELSE permissions.v[i]]
  ELSE IF permissions.t = "json" THEN
    \* JSON.parse succeeds
    parsePermissions(permissions.v[1])
  ELSE IF permissions.t = "string" THEN
    \* JSON.parse throws
    IF Join(permissions.v) = "all" THEN <<"system:full_access">>
    ELSE IF "," \in Range(permissions.v) THEN SplitTrim(permissions.v)
    ELSE <<Join(permissions.v)>>
  ELSE IF permissions.t = "object" THEN
    LET values == permissions.v
    IN IF Len(values) = 1 THEN
         LET value == values[1]
         IN IF Join(value) = "all" THEN <<"system:full_access">>
            ELSE IF "," \in Range(value) THEN SplitTrim(value)
            ELSE <<Join(value)>>
       ELSE [i \in DOMAIN values |-> Join(values[i])]
  ELSE <<>>

\* permissions.js:298-314; spreading a value that is no array throws
getUserPermissions(role, storedPermissions) ==
  LET rolePermissions == getPermissionsForRole(role)
  IN IF Falsy(storedPermissions) THEN rolePermissions
     ELSE IF rolePermissions.t # "array" THEN Thrown("TypeError")
     ELSE JsArray(Dedupe(rolePermissions.v \o parsePermissions(storedPermissions)))

\* part_009:377-385: the permissions authenticateToken puts in req.user, for
\* the row it has read
attachedPermissions(user) == parsePermissions(user.permissions)

\* part_009:452-486: whether authorizePermission(permissions) calls next()
authorizePermission(permissions, reqUser) ==
  \A i \in DOMAIN permissions : permissions[i] \in Range(reqUser.permissions)

\* ---- the arguments drawn for the library's functions
\* the roles of the table, a role of an older schema, and a name every
\* object inherits
RoleInputs == DOMAIN ROLE_PERMISSIONS \cup {"admin", "constructor"}
PermissionNames == {"all", "courses:view"}
PermissionLists == UNION {[1..n -> PermissionNames] : n \in 0..MaxEntries}

\* the entries of `list` as one comma-separated string
RECURSIVE CommaSeparated(_, _)
CommaSeparated(list, spaced) ==
  IF Len(list) = 0 THEN <<>>
  ELSE IF Len(list) = 1 THEN <<list[1]>>
  ELSE <<list[1], ",">> \o (IF spaced THEN <<" ">> ELSE <<>>)
         \o CommaSeparated(Tail(list), spaced)

PlainStrings ==
  {CommaSeparated(list, spaced) : list \in PermissionLists, spaced \in BOOLEAN}
ObjectInputs ==
  {JsObject(<<s>>) : s \in PlainStrings \ {<<>>}}
    \cup {JsObject(list) : list \in [1..2 -> {<<"all">>, <<"courses:view">>}]}
DecodedInputs ==
  {JsNull, JsNumber(5)}
    \cup {JsArray(list) : list \in PermissionLists}
    \cup {JsString(s) : s \in PlainStrings}
    \cup ObjectInputs
StoredInputs == DecodedInputs \cup {JsonText(value) : value \in DecodedInputs}

NoCall == [fn |-> "none", args |-> <<>>, result |-> JsUndefined]
Called(fn, args, result) == [fn |-> fn, args |-> args, result |-> result]

\* -------------------------------------------------------------------- state
VARIABLES
  clock,           \* wall clock, seconds
  started,         \* requests received so far
  users,           \* the users table
  rateLimitStore,  \* the Map of middleware/auth.js, keyed by req.ip
  loginAttempts,   \* the Map of the login proxy, keyed by e-mail
  reqs,            \* the requests in flight: each handler's position and locals,
                   \* its response, and the audit_logs row it inserted
  issued,          \* tokens some caller has received in a response
  superseded,      \* history: refresh tokens a successful refresh has consumed
  revoked,         \* history: refresh tokens a completed logout was to revoke
  call             \* the last call of a permissions function: arguments, result

vars == <<clock, started, users, rateLimitStore, loginAttempts,
          reqs, issued, superseded, revoked, call>>

NoResp == [status |-> 0, code |-> "none", error |-> "none",
           token |-> NoTok, refreshToken |-> NoTok]
NoRow == [user_id |-> 0, action |-> "none", ip_address |-> "none", status_code |-> 0]
NoUser == [is_active |-> FALSE, failed_login_attempts |-> 0, last_failed_login |-> 0]

\* a body without retryAfter
NoRetryAfter == -1

Idle ==
  [kind |-> "idle", via |-> "none", pc |-> "idle", ip |-> "none",
   email |-> "none", password |-> "none", tok |-> NoTok,
   \* locals of the handlers: the row read, Date.now() at the lockout check,
   \* the proxy's attempts entry found
   userId |-> 0, role |-> "none", user |-> NoUser, checkTime |-> 0,
   attempts |-> NoAttempts,
   newAccess |-> NoTok, newRefresh |-> NoTok,
   \* the backend's response, the proxy's response, the audit_logs row inserted
   resp |-> NoResp, presp |-> NoResp, audit |-> NoRow,
   \* the retryAfter of a RATE_LIMIT_EXCEEDED body, NoRetryAfter without one
   retryAfter |-> NoRetryAfter,
   \* history of the request, read by the properties only
   site |-> "none", compared |-> FALSE, lockChecked |-> FALSE,
   lockedOnArrival |-> FALSE, reused |-> FALSE, raced |-> FALSE,
   second |-> FALSE, afterLogout |-> FALSE, auditLost |-> FALSE]

\* SELECT ... FROM users WHERE email = ?
FindByEmail(email) == {u \in Users : users[u].email = email}

\* secureRoutes.js:89-93: the account is locked out at `now`
accountLockedStrict(user, now) ==
  /\ user.failed_login_attempts > FAILED_LOGIN_LIMIT
  /\ now - user.last_failed_login < lockoutTime

accountLockedInclusive(user, now) ==
  /\ user.failed_login_attempts >= FAILED_LOGIN_LIMIT
  /\ now - user.last_failed_login <= lockoutTime

accountLocked(user, now) ==
  /\ user.failed_login_attempts >= FAILED_LOGIN_LIMIT
  /\ now - user.last_failed_login < lockoutTime

\* The audit_logs row auditLog('...') inserts once the response is sent.
AuditRow(q, action, status, userId) ==
  [user_id |-> userId, action |-> action, ip_address |-> q.ip, status_code |-> status]

\* The request after the backend has answered it: a proxied one goes back to
\* the proxy, a direct one is over.
Answered(q, status, code, error, site, row) ==
  [q EXCEPT !.pc = IF q.via = "proxy" THEN "presp" ELSE "done",
            !.resp = [status |-> status, code |-> code, error |-> error,
                      token |-> NoTok, refreshToken |-> NoTok],
            !.site = site, !.audit = row]

\* The users table with account 1 holding `f` failed attempts (the last at
\* time 0) and the refresh pointer `ptr`, suspended or not.
UsersWith(f, ptr, active) ==
  [u \in Users |->
    [email |-> "a@x", password |-> Hash("good"), role |-> "user",
     is_active |-> active, failed_login_attempts |-> f,
     last_failed_login |-> 0, refresh_token |-> ptr]]

\* The rate-limit Map with `c` requests counted for `ip` in a window begun at 0.
StoreWith(ip, c) ==
  [i \in IPs |-> IF c = 0 \/ i # ip THEN NoWindow
                 ELSE [count |-> c, resetTime |-> RATE_WINDOW]]

\* The state after construction, or after requests made at time 0: `f` failed
\* logins of account 1, `c` requests counted for `ip`, and, with `session`,
\* a login of account 1 whose token pair the caller holds; an administrator
\* may have suspended the account since. With `a` > 0, `a` of the failed
\* logins were made through the proxy.
InitWith(f, ip, c, session, active, a) ==
  /\ clock = 0
  /\ started = 0
  /\ users = UsersWith(f, IF session THEN generateRefreshToken(1, 0) ELSE NoTok,
                       active)
  /\ rateLimitStore = StoreWith(ip, c)
  /\ loginAttempts = [e \in Emails |->
                        IF a = 0 \/ e # "a@x" THEN NoAttempts
                        ELSE [count |-> a, lastAttempt |-> 0]]
  /\ reqs = [r \in Reqs |-> Idle]
  /\ issued = IF session
              THEN {generateToken(1, "user", 0), generateRefreshToken(1, 0)}
              ELSE {}
  /\ superseded = {}
  /\ revoked = {}
  /\ call = NoCall

Init ==
  \E f \in {0, FAILED_LOGIN_LIMIT - 1}, ip \in IPs,
     c \in {0, LOGIN_MAX_REQUESTS - 1}, session \in BOOLEAN :
    InitWith(f, ip, c, session, TRUE, 0)

\* An answered request stays in its slot for one state, where the properties
\* read its response and history; the slot is cleared before anything else
\* happens, since nothing of the program reads it.
Delivered == \E r \in Reqs : reqs[r].pc = "done"

\* ----------------------------------------------------------------- the clock
Advance(t) ==
  /\ ~Delivered
  /\ t > clock
  /\ clock' = t
  /\ UNCHANGED <<call, started, users, rateLimitStore, loginAttempts,
                 reqs, issued, superseded, revoked>>

\* A free slot takes the next request. The second slot is taken only while
\* the first is busy: it is there for concurrent requests.
CanStart(r) ==
  /\ ~Delivered
  /\ reqs[r].pc = "idle"
  /\ started < MaxRequests
  /\ \A s \in Reqs : s < r => reqs[s].pc # "idle"

Recycle(r) ==
  /\ reqs[r].pc = "done"
  /\ reqs' = [reqs EXCEPT ![r] = Idle]
  /\ UNCHANGED <<call, clock, started, users, rateLimitStore, loginAttempts,
                 issued, superseded, revoked>>

\* A catch block that answers 500 when the INSERT throws.
auditCatchFails(q) ==
  [q EXCEPT !.audit = NoRow, !.auditLost = TRUE,
            !.resp = [status |-> 500, code |-> "INTERNAL_ERROR",
                      error |-> "Internal server error",
                      token |-> NoTok, refreshToken |-> NoTok],
            !.presp = [status |-> 500, code |-> "SERVER_ERROR",
                       error |-> "Internal server error. Please try again later.",
                       token |-> NoTok, refreshToken |-> NoTok]]

\* part_009:630-632: the catch block of auditLog's timer, console.error only:
\* no row in audit_logs, the response as it was sent
auditCatch(q) == [q EXCEPT !.audit = NoRow, !.auditLost = TRUE]

\* part_009:619-633: the INSERT INTO audit_logs, run from a timer once the
\* response is sent, throws
AuditInsertFails(r) ==
  /\ reqs[r].pc = "done"
  /\ reqs[r].audit # NoRow
  /\ reqs' = [reqs EXCEPT ![r] = auditCatch(reqs[r])]
  /\ UNCHANGED <<call, clock, started, users, rateLimitStore, loginAttempts,
                 issued, superseded, revoked>>

\* History for the properties: the account the e-mail names has
\* FAILED_LOGIN_LIMIT failures or more, the last less than lockoutTime ago.
LockedNow(email) ==
  \E u \in FindByEmail(email) :
    /\ users[u].failed_login_attempts >= FAILED_LOGIN_LIMIT
    /\ clock - users[u].last_failed_login < lockoutTime

\* part_009:491: the key of a request's window is req.ip, whatever the route
WindowFor(ip, endpoint) == rateLimitStore[ip]

\* ---------------------------------------------------------- POST /auth/login
\* secureRoutes.js:42-54: rateLimit(5, 15 min), then auditLog wraps res.send,
\* then the handler runs up to its first await. `q` is the request as received.
LoginArrive(r, q) ==
  LET rec == WindowFor(q.ip, "/auth/login") IN
  /\ rateLimitStore' =
       [rateLimitStore EXCEPT ![q.ip] = rateLimitRecord(rec, RATE_WINDOW, clock)]
  /\ reqs' = [reqs EXCEPT ![r] =
       IF rateLimitExceeded(rec, LOGIN_MAX_REQUESTS, RATE_WINDOW, clock)
       THEN [Answered(q, 429, "RATE_LIMIT_EXCEEDED", "Too many requests",
                      "rate_limit", NoRow)
               EXCEPT !.retryAfter =
                 retryAfter(rateLimitRecord(rec, RATE_WINDOW, clock), clock)]
       ELSE [q EXCEPT !.pc = "select"]]

\* A caller posts to the backend directly.
LoginDirect(r, email, password) ==
  /\ CanStart(r)
  /\ started' = started + 1
  /\ LoginArrive(r, [Idle EXCEPT !.kind = "login", !.via = "direct",
                      !.ip = ClientIP, !.email = email, !.password = password,
                      !.lockedOnArrival = LockedNow(email)])
  /\ UNCHANGED <<call, clock, users, loginAttempts, issued, superseded, revoked>>

\* part_003:95-112: the proxy validates, checks its attempt map, and forwards.
LoginProxy(r, email, password) ==
  LET attempts == loginAttempts[email]
      q == [Idle EXCEPT !.kind = "login", !.via = "proxy", !.ip = ProxyIP,
                        !.email = email, !.password = password,
                        !.attempts = attempts,
                        !.lockedOnArrival = LockedNow(email)]
  IN
  /\ CanStart(r)
  /\ started' = started + 1
  /\ IF checkRateLimitThrows(attempts, clock)
     THEN /\ reqs' = [reqs EXCEPT ![r] =
                [q EXCEPT !.pc = "done", !.site = "proxy_limit",
                          !.presp = [NoResp EXCEPT
                            !.status = 429, !.code = "RATE_LIMITED",
                            !.error = "Too many login attempts. Please try again later."]]]
          /\ UNCHANGED loginAttempts
     ELSE /\ reqs' = [reqs EXCEPT ![r] = [q EXCEPT !.pc = "rate"]]
          /\ loginAttempts' =
               [loginAttempts EXCEPT ![email] = checkRateLimitEntry(attempts, clock)]
  /\ UNCHANGED <<call, clock, users, rateLimitStore, issued, superseded, revoked>>

\* The proxy's fetch reaches the backend.
LoginForwarded(r) ==
  /\ ~Delivered
  /\ reqs[r].kind = "login"
  /\ reqs[r].pc = "rate"
  /\ LoginArrive(r, reqs[r])
  /\ UNCHANGED <<call, clock, started, users, loginAttempts, issued, superseded, revoked>>

\* secureRoutes.js:62-67: the answer when the e-mail names no account
UnknownUserError ==
  [status |-> 401, code |-> "INVALID_CREDENTIALS", error |-> "Invalid credentials"]

WrongPasswordDistinct ==
  [status |-> 401, code |-> "INVALID_PASSWORD", error |-> "Invalid password"]

\* secureRoutes.js:118-121: the answer when the password does not match
WrongPasswordError ==
  [status |-> 401, code |-> "INVALID_CREDENTIALS", error |-> "Invalid credentials"]

\* secureRoutes.js:109-111: where the handler goes after comparePassword
AfterCompare(q, hash) ==
  [q EXCEPT !.compared = TRUE,
            !.pc = IF comparePassword(q.password, hash) THEN "succ" ELSE "incr"]

\* secureRoutes.js:56-111: the SELECT by e-mail and the checks on its row
LoginSelect(r) ==
  LET q == reqs[r]
      found == FindByEmail(q.email)
  IN
  /\ ~Delivered
  /\ q.kind = "login"
  /\ q.pc = "select"
  /\ IF found = {}
     THEN reqs' = [reqs EXCEPT ![r] =
            Answered(q, UnknownUserError.status, UnknownUserError.code,
                     UnknownUserError.error, "no_user",
                     AuditRow(q, "LOGIN_ATTEMPT", 401, 0))]
     ELSE LET u == CHOOSE x \in found : TRUE
              user == users[u]
              p == [q EXCEPT !.userId = u, !.role = user.role, !.checkTime = clock,
                       !.user = [is_active |-> user.is_active,
                                 failed_login_attempts |-> user.failed_login_attempts,
                                 last_failed_login |-> user.last_failed_login]]
          IN
          reqs' = [reqs EXCEPT ![r] =
            IF ~user.is_active
            THEN Answered(p, 403, "ACCOUNT_SUSPENDED", "Account is suspended",
                          "suspended",
                          AuditRow(q, "LOGIN_ATTEMPT", 403, 0))
            ELSE IF accountLocked(user, clock)
            THEN Answered([p EXCEPT !.lockChecked = TRUE],
                          429, "ACCOUNT_LOCKED",
                          "Account temporarily locked due to too many failed attempts",
                          "locked",
                          AuditRow(q, "LOGIN_ATTEMPT", 429, 0))
            ELSE IF user.failed_login_attempts >= FAILED_LOGIN_LIMIT
            THEN [p EXCEPT !.lockChecked = TRUE, !.pc = "reset"]
            ELSE AfterCompare([p EXCEPT !.lockChecked = TRUE], user.password)]
  /\ UNCHANGED <<call, clock, started, users, rateLimitStore, loginAttempts,
                 issued, superseded, revoked>>

\* secureRoutes.js:100-111: UPDATE ... failed_login_attempts = 0 after the
\* lockout period, then comparePassword
LoginReset(r) ==
  LET q == reqs[r] IN
  /\ ~Delivered
  /\ q.kind = "login"
  /\ q.pc = "reset"
  /\ users' = [users EXCEPT ![q.userId].failed_login_attempts = 0]
  /\ reqs' = [reqs EXCEPT ![r] = AfterCompare(q, users[q.userId].password)]
  /\ UNCHANGED <<call, clock, started, rateLimitStore, loginAttempts,
                 issued, superseded, revoked>>

\* secureRoutes.js:112-121: the failed attempt is counted and answered 401
LoginFail(r) ==
  LET q == reqs[r] IN
  /\ ~Delivered
  /\ q.kind = "login"
  /\ q.pc = "incr"
  /\ users' = [users EXCEPT ![q.userId] =
       [@ EXCEPT !.failed_login_attempts = @ + 1, !.last_failed_login = clock]]
  /\ reqs' = [reqs EXCEPT ![r] =
       Answered(q, WrongPasswordError.status, WrongPasswordError.code,
                WrongPasswordError.error, "bad_password",
                AuditRow(q, "LOGIN_ATTEMPT", 401, 0))]
  /\ UNCHANGED <<call, clock, started, rateLimitStore, loginAttempts,
                 issued, superseded, revoked>>

resetFailedKeep(user) == user

\* secureRoutes.js:125-128: the counter UPDATE of a successful login
resetFailed(user) == [user EXCEPT !.failed_login_attempts = 0]

\* secureRoutes.js:124-134: the counter is reset and the two tokens are signed
LoginSucceed(r) ==
  LET q == reqs[r] IN
  /\ ~Delivered
  /\ q.kind = "login"
  /\ q.pc = "succ"
  /\ users' = [users EXCEPT ![q.userId] = resetFailed(@)]
  /\ reqs' = [reqs EXCEPT ![r] =
       [q EXCEPT !.pc = "store",
                 !.newAccess = generateToken(q.userId, q.role, clock),
                 !.newRefresh = generateRefreshToken(q.userId, clock)]]
  /\ UNCHANGED <<call, clock, started, rateLimitStore, loginAttempts,
                 issued, superseded, revoked>>

\* secureRoutes.js:135-157: the refresh token is stored and the pair returned
LoginStore(r) ==
  LET q == reqs[r] IN
  /\ ~Delivered
  /\ q.kind = "login"
  /\ q.pc = "store"
  /\ users' = [users EXCEPT ![q.userId].refresh_token = q.newRefresh]
  /\ reqs' = [reqs EXCEPT ![r] =
       [Answered(q, 200, "OK", "none", "success",
                 AuditRow(q, "LOGIN_ATTEMPT", 200, 0))
          EXCEPT !.resp.token = q.newAccess, !.resp.refreshToken = q.newRefresh]]
  /\ issued' = issued \cup {q.newAccess, q.newRefresh}
  /\ UNCHANGED <<call, clock, started, rateLimitStore, loginAttempts, superseded, revoked>>

\* part_003:121-134: the error code the proxy gives for a backend status
ProxyErrorCode(status) ==
  CASE status = 400 -> "INVALID_CREDENTIALS"
    [] status = 401 -> "UNAUTHORIZED"
    [] status = 403 -> "ACCOUNT_SUSPENDED"
    [] status = 429 -> "RATE_LIMITED"
    [] status = 500 -> "SERVER_ERROR"
    [] OTHER -> "LOGIN_FAILED"

\* part_003:121-134, 157-161: the message of the AuthError the proxy throws
\* for a backend answer with message `error`
ProxyErrorMessage(status, error) ==
  IF status = 500 THEN "Internal server error. Please try again later." ELSE error

\* part_003:114-153: the proxy records the attempt and answers its caller
ProxyRespond(r) ==
  LET q == reqs[r]
      ok == q.resp.status = 200
  IN
  /\ ~Delivered
  /\ q.kind = "login"
  /\ q.pc = "presp"
  /\ loginAttempts' = [loginAttempts EXCEPT ![q.email] = recordAttempt(@, ok, clock)]
  /\ reqs' = [reqs EXCEPT ![r] =
       [q EXCEPT !.pc = "done",
                 !.presp = IF ok THEN q.resp
                           ELSE [NoResp EXCEPT
                                   !.status = q.resp.status,
                                   !.code = ProxyErrorCode(q.resp.status),
                                   !.error = ProxyErrorMessage(q.resp.status,
                                                               q.resp.error)]]]
  /\ UNCHANGED <<call, clock, started, users, rateLimitStore, issued, superseded, revoked>>

\* secureRoutes.js:681-699: an administrator's PUT /users/:userId sets is_active
UpdateUserActive(u, active) ==
  /\ ~Delivered
  /\ users[u].is_active # active
  /\ users' = [users EXCEPT ![u].is_active = active]
  /\ UNCHANGED <<call, clock, started, rateLimitStore, loginAttempts, reqs,
                 issued, superseded, revoked>>

\* secureRoutes.js:681-699: an administrator's PUT /users/:userId sets role
UpdateUserRole(u, role) ==
  /\ ~Delivered
  /\ users[u].role # role
  /\ users' = [users EXCEPT ![u].role = role]
  /\ UNCHANGED <<call, clock, started, rateLimitStore, loginAttempts, reqs,
                 issued, superseded, revoked>>

\* secureRoutes.js:625: the roles PUT /users/:userId takes for administrators
isAdmin(role) == role \in {"super_admin", "community_manager", "content_manager"}

\* secureRoutes.js:601-706: PUT /users/:userId {role} by account `actor`, who
\* presents a valid access token: authenticateToken reads the actor's row
\* (active accounts only), and the handler sets the role when the actor's
\* role is one of isAdmin; otherwise it changes no role.
PutUserRole(actor, userId, role) ==
  /\ ~Delivered
  /\ users[actor].is_active
  /\ users[userId].role # role
  /\ users' = IF isAdmin(users[actor].role)
              THEN [users EXCEPT ![userId].role = role]
              ELSE users
  /\ UNCHANGED <<call, clock, started, rateLimitStore, loginAttempts, reqs,
                 issued, superseded, revoked>>

\* -------------------------------------------------------- POST /auth/refresh
\* secureRoutes.js:243-249: what the catch block answers when
\* verifyRefreshToken throws (expired, malformed, wrong type)
RefreshRejected ==
  [status |-> 401, code |-> "INVALID_REFRESH_TOKEN", error |-> "Invalid refresh token"]

\* secureRoutes.js:177-200: rateLimit(10, 15 min), then verifyRefreshToken;
\* what it throws is caught at 243-249
RefreshStart(r, tok) ==
  LET rec == WindowFor(ClientIP, "/auth/refresh")
      q == [Idle EXCEPT !.kind = "refresh", !.via = "direct", !.ip = ClientIP,
                        !.tok = tok,
                        !.reused = tok \in superseded,
                        !.afterLogout = tok \in revoked]
  IN
  /\ CanStart(r)
  /\ started' = started + 1
  /\ rateLimitStore' =
       [rateLimitStore EXCEPT ![q.ip] = rateLimitRecord(rec, RATE_WINDOW, clock)]
  /\ reqs' = [reqs EXCEPT ![r] =
       IF rateLimitExceeded(rec, REFRESH_MAX_REQUESTS, RATE_WINDOW, clock)
       THEN [Answered(q, 429, "RATE_LIMIT_EXCEEDED", "Too many requests",
                      "rate_limit", NoRow)
               EXCEPT !.retryAfter =
                 retryAfter(rateLimitRecord(rec, RATE_WINDOW, clock), clock)]
       ELSE IF ~verifyRefreshToken(tok, clock)
       THEN Answered(q, RefreshRejected.status, RefreshRejected.code,
                     RefreshRejected.error,
                     IF JwtVerify(tok, clock) = "TokenExpiredError"
                     THEN "expired" ELSE "malformed", NoRow)
       ELSE [q EXCEPT !.pc = "rselect", !.userId = tok.userId]]
  /\ UNCHANGED <<call, clock, users, loginAttempts, issued, superseded, revoked>>

\* SELECT ... FROM users WHERE id = ? AND refresh_token = ?
FindByRefreshToken(userId, tok) ==
  {u \in Users : u = userId /\ users[u].refresh_token = tok}

\* secureRoutes.js:202-228: the SELECT by id and stored token; on a match the
\* new pair is signed
RefreshSelect(r) ==
  LET q == reqs[r]
      found == FindByRefreshToken(q.userId, q.tok)
  IN
  /\ ~Delivered
  /\ q.kind = "refresh"
  /\ q.pc = "rselect"
  /\ reqs' = [reqs EXCEPT ![r] =
       IF found = {}
       THEN Answered(q, 401, "INVALID_REFRESH_TOKEN", "Invalid refresh token",
                     "not_current", NoRow)
       ELSE LET u == CHOOSE x \in found : TRUE IN
            [q EXCEPT !.pc = "rstore", !.role = users[u].role,
                      !.newAccess = generateToken(u, users[u].role, clock),
                      !.newRefresh = generateRefreshToken(u, clock),
                      !.raced = \E s \in Reqs \ {r} :
                                  /\ reqs[s].kind = "refresh"
                                  /\ reqs[s].pc = "rstore"
                                  /\ reqs[s].tok = q.tok]]
  /\ UNCHANGED <<call, clock, started, users, rateLimitStore, loginAttempts,
                 issued, superseded, revoked>>

\* secureRoutes.js:230-241: the new refresh token is stored, the pair returned
RefreshStore(r) ==
  LET q == reqs[r] IN
  /\ ~Delivered
  /\ q.kind = "refresh"
  /\ q.pc = "rstore"
  /\ users' = [users EXCEPT ![q.userId].refresh_token = q.newRefresh]
  /\ reqs' = [reqs EXCEPT ![r] =
       [Answered(q, 200, "OK", "none", "success", NoRow)
          EXCEPT !.resp.token = q.newAccess, !.resp.refreshToken = q.newRefresh,
                 !.second = q.tok \in superseded]]
  /\ issued' = issued \cup {q.newAccess, q.newRefresh}
  /\ superseded' = superseded \cup {q.tok}
  /\ UNCHANGED <<call, clock, started, rateLimitStore, loginAttempts, revoked>>

\* --------------------------------------------------------- POST /auth/logout
\* part_009:299-339: authenticateToken up to its SELECT
LogoutStart(r, tok) ==
  LET q == [Idle EXCEPT !.kind = "logout", !.via = "direct", !.ip = ClientIP,
                        !.tok = tok]
      verdict == JwtVerify(tok, clock)
  IN
  /\ CanStart(r)
  /\ started' = started + 1
  /\ reqs' = [reqs EXCEPT ![r] =
       IF verdict = "TokenExpiredError"
       THEN Answered(q, 401, "TOKEN_EXPIRED", "Token expired", "auth_failed", NoRow)
       ELSE IF verdict # "ok" \/ ~validateUserId(tok.userId)
       THEN Answered(q, 401, "TOKEN_INVALID", "Invalid token", "auth_failed", NoRow)
       ELSE [q EXCEPT !.pc = "lauth", !.userId = tok.userId]]
  /\ UNCHANGED <<call, clock, users, rateLimitStore, loginAttempts, issued,
                 superseded, revoked>>

ActiveUserWithSession(userId) ==
  /\ userId \in Users
  /\ users[userId].is_active
  /\ users[userId].refresh_token # NoTok

\* part_009:352-364: SELECT ... FROM users WHERE id = ? AND is_active = 1
\* returns a row
ActiveUser(userId) ==
  /\ userId \in Users
  /\ users[userId].is_active

\* part_009:341-388: SELECT ... WHERE id = ? AND is_active = 1; then auditLog
\* wraps res.send and the handler issues its UPDATE
LogoutAuth(r) ==
  LET q == reqs[r] IN
  /\ ~Delivered
  /\ q.kind = "logout"
  /\ q.pc = "lauth"
  /\ reqs' = [reqs EXCEPT ![r] =
       IF ActiveUser(q.userId)
       THEN [q EXCEPT !.pc = "lupdate", !.role = users[q.userId].role]
       ELSE Answered(q, 401, "USER_NOT_FOUND",
                     "User account not found or inactive", "auth_failed", NoRow)]
  /\ UNCHANGED <<call, clock, started, users, rateLimitStore, loginAttempts,
                 issued, superseded, revoked>>

\* secureRoutes.js:259-267: UPDATE users SET refresh_token = NULL
LogoutUpdate(r) ==
  LET q == reqs[r]
      rotating == {reqs[s].newRefresh : s \in
                     {x \in Reqs : /\ reqs[x].kind = "refresh"
                                   /\ reqs[x].pc = "rstore"
                                   /\ reqs[x].userId = q.userId}}
  IN
  /\ ~Delivered
  /\ q.kind = "logout"
  /\ q.pc = "lupdate"
  /\ users' = [users EXCEPT ![q.userId].refresh_token = NoTok]
  /\ reqs' = [reqs EXCEPT ![r] =
       Answered(q, 200, "OK", "none", "success",
                AuditRow(q, "LOGOUT", 200, q.userId))]
  /\ revoked' = revoked \cup ({users[q.userId].refresh_token} \ {NoTok}) \cup rotating
  /\ UNCHANGED <<call, clock, started, rateLimitStore, loginAttempts, issued, superseded>>


\* ------------------------------------------------- the permissions functions
ParsePermissions(permissions) ==
  /\ call' = Called("parsePermissions", <<permissions>>,
                    JsArray(parsePermissions(permissions)))
  /\ UNCHANGED <<clock, started, users, rateLimitStore, loginAttempts, reqs,
                 issued, superseded, revoked>>

GetUserPermissions(role, storedPermissions) ==
  /\ call' = Called("getUserPermissions", <<role, storedPermissions>>,
                    getUserPermissions(role, storedPermissions))
  /\ UNCHANGED <<clock, started, users, rateLimitStore, loginAttempts, reqs,
                 issued, superseded, revoked>>

GetPermissionsForRole(role) ==
  /\ call' = Called("getPermissionsForRole", <<role>>, getPermissionsForRole(role))
  /\ UNCHANGED <<clock, started, users, rateLimitStore, loginAttempts, reqs,
                 issued, superseded, revoked>>

CanManageRole(currentRole, targetRole) ==
  /\ call' = Called("canManageRole", <<currentRole, targetRole>>,
                    canManageRole(currentRole, targetRole))
  /\ UNCHANGED <<clock, started, users, rateLimitStore, loginAttempts, reqs,
                 issued, superseded, revoked>>

GetManageableRoles(role) ==
  /\ call' = Called("getManageableRoles", <<role>>, getManageableRoles(role))
  /\ UNCHANGED <<clock, started, users, rateLimitStore, loginAttempts, reqs,
                 issued, superseded, revoked>>

\* part_009:299-388 and 452-486: a request with a valid token of an active
\* account, whose row holds `role` and `permissions`, on a route behind
\* authenticateToken and authorizePermission(required)
AuthorizePermission(role, permissions, required) ==
  LET user == [role |-> role, permissions |-> permissions]
      reqUser == [role |-> user.role, permissions |-> attachedPermissions(user)]
  IN
  /\ call' = Called("authorizePermission", <<role, permissions, required>>,
                    JsBoolean(authorizePermission(required, reqUser)))
  /\ UNCHANGED <<clock, started, users, rateLimitStore, loginAttempts, reqs,
                 issued, superseded, revoked>>

\* ------------------------------------------------------------ specifications
\* What a caller may present as a token: one it has received, or a string that
\* is no token.
Presentable == issued \cup {Garbage}

Login ==
  \/ \E r \in Reqs : Recycle(r)
  \/ \E r \in Reqs : LoginSelect(r)
  \/ \E r \in Reqs : LoginSucceed(r)
  \/ \E r \in Reqs : LoginStore(r)

LoginFailures ==
  \/ \E r \in Reqs : LoginForwarded(r)
  \/ \E r \in Reqs : LoginReset(r)
  \/ \E r \in Reqs : LoginFail(r)
  \/ \E r \in Reqs : ProxyRespond(r)

Tokens ==
  \/ \E r \in Reqs, t \in Presentable : RefreshStart(r, t)
  \/ \E r \in Reqs : RefreshSelect(r)
  \/ \E r \in Reqs : RefreshStore(r)
  \/ \E r \in Reqs, t \in Presentable : LogoutStart(r, t)
  \/ \E r \in Reqs : LogoutAuth(r)
  \/ \E r \in Reqs : LogoutUpdate(r)

\* The calls of the permissions functions, over the arguments drawn.
Library ==
  \/ \E permissions \in StoredInputs : ParsePermissions(permissions)
  \/ \E role \in RoleInputs, permissions \in StoredInputs :
       GetUserPermissions(role, permissions)
  \/ \E role \in RoleInputs : GetPermissionsForRole(role)
  \/ \E currentRole \in RoleInputs, targetRole \in RoleInputs :
       CanManageRole(currentRole, targetRole)
  \/ \E role \in RoleInputs : GetManageableRoles(role)

\* The permissions a route may require.
RequiredInputs == {<<"courses:view">>, <<"courses:view", "users:manage">>}

Authorization ==
  \E role \in DOMAIN ROLE_PERMISSIONS, permissions \in StoredInputs,
     required \in RequiredInputs :
    AuthorizePermission(role, permissions, required)

\* Every request of the model.
Next ==
  \/ \E t \in Instants : Advance(t)
  \/ \E r \in Reqs, i \in LoginInputs : LoginDirect(r, i[1], i[2])
  \/ \E r \in Reqs, i \in LoginInputs : LoginProxy(r, i[1], i[2])
  \/ Login
  \/ LoginFailures
  \/ Tokens
  \/ \E u \in Users, b \in BOOLEAN : UpdateUserActive(u, b)
  \/ \E u \in Users, role \in Roles : UpdateUserRole(u, role)
  \/ Library
  \/ Authorization
  \/ \E r \in Reqs : AuditInsertFails(r)
  \/ \E actor \in Users, userId \in Users, role \in DOMAIN roleHierarchy :
       PutUserRole(actor, userId, role)

Spec == Init /\ [][Next]_vars

\* Logins of account 1 only, direct and through the proxy, with the right and
\* a wrong secret; the account may be suspended.
KnownInputs == {i \in LoginInputs : i[1] = "a@x"}

InitLogin ==
  \E f \in {0, FAILED_LOGIN_LIMIT - 1}, c \in {0, LOGIN_MAX_REQUESTS - 1},
     active \in BOOLEAN :
    InitWith(f, ProxyIP, c, FALSE, active, 0)

NextLogin ==
  \/ \E t \in Instants : Advance(t)
  \/ \E r \in Reqs, i \in KnownInputs : LoginDirect(r, i[1], i[2])
  \/ \E r \in Reqs, i \in KnownInputs : LoginProxy(r, i[1], i[2])
  \/ Login
  \/ LoginFailures

SpecLogin == InitLogin /\ [][NextLogin]_vars

\* The lockout of account 1 after four failed logins at time 0, made from
\* other addresses or, all four, through the proxy; logins name account 1 or
\* no account.
InitLockout ==
  \E a \in {0, MAX_ATTEMPTS - 1} :
    InitWith(FAILED_LOGIN_LIMIT - 1, ProxyIP, a, FALSE, TRUE, a)

NextLockout ==
  \/ \E t \in Instants : Advance(t)
  \/ \E r \in Reqs, i \in LoginInputs : LoginDirect(r, i[1], i[2])
  \/ \E r \in Reqs, i \in LoginInputs : LoginProxy(r, i[1], i[2])
  \/ Login
  \/ LoginFailures

SpecLockout == InitLockout /\ [][NextLockout]_vars

\* The token life cycle: logins with the right secret, refreshes and logouts.
InitToken ==
  \E c \in {0, LOGIN_MAX_REQUESTS - 1}, session \in BOOLEAN :
    InitWith(0, ClientIP, c, session, TRUE, 0)

NextToken ==
  \/ \E t \in Instants : Advance(t)
  \/ \E r \in Reqs : LoginDirect(r, "a@x", "good")
  \/ Login
  \/ Tokens

SpecToken == InitToken /\ [][NextToken]_vars

\* The token life cycle while the audit_logs table may refuse any INSERT.
InitAudit == InitWith(0, ClientIP, 0, TRUE, TRUE, 0)

NextAudit ==
  \/ \E t \in Instants : Advance(t)
  \/ \E r \in Reqs, password \in Passwords : LoginDirect(r, "a@x", password)
  \/ Login
  \/ \E r \in Reqs : LoginFail(r)
  \/ Tokens
  \/ \E r \in Reqs : AuditInsertFails(r)

SpecAudit == InitAudit /\ [][NextAudit]_vars

\* Authenticated requests of a caller who holds a session, while an
\* administrator changes the account's role or suspends it.
InitAccess == InitWith(0, ClientIP, 0, TRUE, TRUE, 0)

Administration ==
  \/ \E u \in Users, role \in Roles : UpdateUserRole(u, role)
  \/ \E u \in Users, b \in BOOLEAN : UpdateUserActive(u, b)

NextAccess ==
  \/ \E t \in Instants : Advance(t)
  \/ \E r \in Reqs : LoginDirect(r, "a@x", "good")
  \/ Login
  \/ Tokens
  \/ Administration

SpecAccess == InitAccess /\ [][NextAccess]_vars

\* The permissions functions alone, called in any order with the arguments
\* drawn.
InitPermissions == InitWith(0, ClientIP, 0, FALSE, TRUE, 0)
NextPermissions == Library
SpecPermissions == InitPermissions /\ [][NextPermissions]_vars

\* Accounts that change roles through PUT /users/:userId, and log in.
InitAdmin ==
  \E role \in DOMAIN roleHierarchy :
    /\ clock = 0
    /\ started = 0
    /\ users = [u \in Users |-> [UsersWith(0, NoTok, TRUE)[u] EXCEPT !.role = role]]
    /\ rateLimitStore = StoreWith(ClientIP, 0)
    /\ loginAttempts = [e \in Emails |-> NoAttempts]
    /\ reqs = [r \in Reqs |-> Idle]
    /\ issued = {}
    /\ superseded = {}
    /\ revoked = {}
    /\ call = NoCall

NextAdmin ==
  \/ \E t \in Instants : Advance(t)
  \/ \E r \in Reqs : LoginDirect(r, "a@x", "good")
  \/ Login
  \/ \E actor \in Users, userId \in Users, role \in DOMAIN roleHierarchy :
       PutUserRole(actor, userId, role)

SpecAdmin == InitAdmin /\ [][NextAdmin]_vars

\* Authorized requests alone, over the roles of the table and the stored
\* permissions drawn.
InitAuthorize == InitWith(0, ClientIP, 0, FALSE, TRUE, 0)
NextAuthorize == Authorization
SpecAuthorize == InitAuthorize /\ [][NextAuthorize]_vars

\* ------------------------------------------------------------------ properties
\* What the caller of a request receives: the proxy's answer for a proxied
\* login, the backend's otherwise.
CallerResp(q) == IF q.via = "proxy" THEN q.presp ELSE q.resp

Tokenless(resp) == resp.token = NoTok /\ resp.refreshToken = NoTok

AnsweredReqs(kind) == {r \in Reqs : reqs[r].kind = kind /\ reqs[r].pc = "done"}

\* C1: once a refresh presenting T has succeeded, a later refresh presenting T
\* fails and returns no token pair. (The statement of the claim; the code
\* violates it.)
RefreshSingleUse ==
  \A r \in AnsweredReqs("refresh") :
    reqs[r].reused => reqs[r].resp.status # 200 /\ Tokenless(reqs[r].resp)

\* C2: of two refreshes presenting the same current token, each reading the
\* stored pointer before either has written it, at most one returns a token
\* pair. (The statement of the claim; the code violates it.)
ConcurrentRefreshOneWinner ==
  \A r \in AnsweredReqs("refresh") :
    reqs[r].raced /\ reqs[r].second => reqs[r].resp.status # 200

LockoutStep(r) ==
  LET q == reqs[r]
      p == reqs'[r]
  IN
  /\ (q.kind = "login" /\ q.pc = "select" /\ p.pc # "select") =>
       \A u \in FindByEmail(q.email) :
         (/\ users[u].is_active
          /\ users[u].failed_login_attempts >= FAILED_LOGIN_LIMIT
          /\ clock - users[u].last_failed_login < lockoutTime)
         => /\ p.pc \in {"done", "presp"}
            /\ p.resp.status = 429
            /\ p.resp.code = "ACCOUNT_LOCKED"
            /\ Tokenless(p.resp)
            /\ ~p.compared
            /\ users' = users
            /\ issued' = issued
  /\ (q.kind = "login" /\ q.pc = "presp" /\ p.pc = "done"
        /\ q.resp.code = "ACCOUNT_LOCKED") =>
       /\ p.presp.status = 429
       /\ p.presp.code = "RATE_LIMITED"
       /\ Tokenless(p.presp)
  /\ (p.kind = "login" /\ p.site = "rate_limit" /\ q.site # "rate_limit") =>
       /\ p.resp.code = "RATE_LIMIT_EXCEEDED"
       /\ Tokenless(p.resp)
       /\ ~p.lockChecked
       /\ users' = users
       /\ issued' = issued

SuccessStep(r) ==
  LET q == reqs[r]
      p == reqs'[r]
  IN
  /\ (q.kind = "login" /\ q.pc = "succ" /\ p.pc = "store") =>
       users'[q.userId].failed_login_attempts = 0
  /\ (q.kind = "login" /\ q.pc = "presp" /\ p.pc = "done" /\ q.resp.status = 200) =>
       loginAttempts'[q.email] = NoAttempts

SuccessResetsCounters == [][\A r \in Reqs : SuccessStep(r)]_vars

\* C4, witness: a proxied login succeeded for an account whose row held
\* failures and whose e-mail had a proxy entry; both are now zero.
SuccessAfterFailures ==
  \E r \in AnsweredReqs("login") :
    /\ reqs[r].via = "proxy"
    /\ reqs[r].presp.status = 200
    /\ reqs[r].user.failed_login_attempts > 0
    /\ reqs[r].attempts.count > 0
    /\ users[reqs[r].userId].failed_login_attempts = 0
    /\ loginAttempts[reqs[r].email] = NoAttempts

\* C5: a refresh presenting a token that was the stored pointer, or was being
\* written by a refresh in flight, when a logout ran, fails. (The statement
\* of the claim; the code violates it.)
LogoutRevokesRefresh ==
  \A r \in AnsweredReqs("refresh") :
    reqs[r].afterLogout => reqs[r].resp.status # 200 /\ Tokenless(reqs[r].resp)

\* C6: a request counted under a key with no window, or arriving after the
\* window's reset time, is permitted and leaves a window of count 1 ending one
\* window length later; any other request adds one to the count, keeps the
\* reset time, and is permitted exactly when the count, this request included,
\* is at most the limit.
WindowStep(ip) ==
  LET rec == rateLimitStore[ip]
      new == rateLimitStore'[ip]
  IN
  new # rec =>
    \E r \in Reqs :
      /\ reqs'[r] # reqs[r]
      /\ reqs'[r].ip = ip
      /\ LET permitted == reqs'[r].pc = "select" /\ reqs'[r].site = "none"
             refused == /\ reqs'[r].site = "rate_limit"
                        /\ reqs'[r].resp.status = 429
                        /\ reqs'[r].resp.code = "RATE_LIMIT_EXCEEDED"
         IN
         IF rec = NoWindow \/ clock > rec.resetTime
         THEN /\ permitted
              /\ new = [count |-> 1, resetTime |-> clock + RATE_WINDOW]
         ELSE /\ new = [count |-> rec.count + 1, resetTime |-> rec.resetTime]
              /\ IF rec.count + 1 <= LOGIN_MAX_REQUESTS THEN permitted ELSE refused

WindowSemantics == [][\A ip \in IPs : WindowStep(ip)]_vars

\* C6, witness: a request was refused under a key, and while it is still on
\* its way back a later request under the same key, arriving after the reset
\* time, was permitted and found the key's count back at 1.
NewWindowAfterRefusal ==
  \E r, s \in Reqs :
    /\ reqs[r].site = "rate_limit"
    /\ reqs[r].pc = "presp"
    /\ reqs[s].kind = "login"
    /\ reqs[s].pc = "select"
    /\ reqs[s].ip = reqs[r].ip
    /\ rateLimitStore[reqs[s].ip] = [count |-> 1, resetTime |-> clock + RATE_WINDOW]

\* C7: a request to /auth/refresh leaves the window that decides the same
\* address's requests to /auth/login as it was. (The statement of the claim;
\* the code violates it.)
EndpointWindowsIndependent ==
  [][\A r \in Reqs :
       (reqs[r].pc = "idle" /\ reqs'[r].kind = "refresh") =>
         WindowFor(ClientIP, "/auth/login")' = WindowFor(ClientIP, "/auth/login")]_vars

\* C8: a rate-limited login reaches neither the lockout check nor a password
\* comparison, a login for a locked account reaches no comparison, and the
\* caller of a login refused for lockout or for bad credentials gets a code
\* other than the one a rate-limited caller gets on the same route, and the
\* two differ from each other. (The statement of the claim; the code violates
\* it.)
LoginGatesDistinct ==
  \A r \in AnsweredReqs("login") :
    LET q == reqs[r]
        rateLimited == IF q.via = "proxy" THEN ProxyErrorCode(429)
                       ELSE "RATE_LIMIT_EXCEEDED"
        invalid == IF q.via = "proxy" THEN ProxyErrorCode(401)
                   ELSE "INVALID_CREDENTIALS"
    IN
    /\ q.site = "rate_limit" => ~q.lockChecked /\ ~q.compared
    /\ q.site = "locked" =>
         /\ ~q.compared
         /\ CallerResp(q).code # rateLimited
         /\ CallerResp(q).code # invalid
    /\ q.site = "bad_password" => CallerResp(q).code # rateLimited

\* C9: every answered login has its row in audit_logs, and so has every
\* refresh refused because the token is not the stored one. (The statement of
\* the claim; the code violates it.)
OutcomesAudited ==
  /\ \A r \in AnsweredReqs("login") :
       reqs[r].resp # NoResp => reqs[r].audit # NoRow
  /\ \A r \in AnsweredReqs("refresh") :
       reqs[r].site = "not_current" => reqs[r].audit # NoRow

\* C10: a refresh refused because its valid, unexpired token is not the stored
\* one gets a code other than the one given for an expired or malformed token.
\* (The statement of the claim; the code violates it.)
ReuseDistinctFromExpiry ==
  \A r \in AnsweredReqs("refresh") :
    (reqs[r].site = "not_current" /\ verifyRefreshToken(reqs[r].tok, clock))
    => reqs[r].resp.code # RefreshRejected.code

\* What the caller of a login gets when the backend answers `e`: `e` itself,
\* or what the proxy makes of it.
Relayed(via, e) ==
  IF via = "proxy"
  THEN [status |-> e.status, code |-> ProxyErrorCode(e.status),
        error |-> ProxyErrorMessage(e.status, e.error)]
  ELSE e

SameOutcome(resp, e) ==
  /\ resp.status = e.status
  /\ resp.code = e.code
  /\ resp.error = e.error
  /\ Tokenless(resp)

\* C11: the caller of a login for an e-mail that names no account gets the
\* status, code and message that a wrong password gets on the same route, and
\* the caller of a login with a wrong password gets those an unknown e-mail
\* gets.
InvalidCredentialsUniform ==
  \A r \in AnsweredReqs("login") :
    /\ reqs[r].site = "no_user" =>
         SameOutcome(CallerResp(reqs[r]), Relayed(reqs[r].via, WrongPasswordError))
    /\ reqs[r].site = "bad_password" =>
         SameOutcome(CallerResp(reqs[r]), Relayed(reqs[r].via, UnknownUserError))

\* C11, witness: a proxied login for an unknown e-mail has been answered while
\* a proxied login with a wrong password holds the backend's answer, and the
\* two answers of the backend are the same.
BothRefusalsSeen ==
  \E r \in AnsweredReqs("login"), s \in Reqs :
    /\ reqs[r].site = "no_user"
    /\ reqs[r].via = "proxy"
    /\ reqs[s].pc = "presp"
    /\ reqs[s].site = "bad_password"
    /\ reqs[s].resp = reqs[r].resp

\* C12: a login answered 200 returns an access token whose claims hold the
\* account's role and a permission set, and a refresh token equal to the
\* account's stored pointer. (The statement of the claim; the code violates
\* it: the payload generateToken signs has no permissions.)
LoginPairCarriesPermissions ==
  \A r \in AnsweredReqs("login") :
    reqs[r].resp.status = 200 =>
      /\ reqs[r].resp.token.role = reqs[r].role
      /\ "permissions" \in DOMAIN reqs[r].resp.token
      /\ reqs[r].resp.refreshToken = users[reqs[r].userId].refresh_token

\* C13: the role an authenticated request runs with is the role its access
\* token was issued with, whatever the users table holds by then. (The
\* statement of the claim; the code violates it.)
VerifiedRoleIsIssuedRole ==
  \A r \in Reqs :
    (/\ reqs[r].kind = "logout"
     /\ reqs[r].pc = "lupdate"
     /\ reqs[r].tok.type = "access")
    => reqs[r].role = reqs[r].tok.role

\* C14: authenticateToken lets no request pass that presents a refresh token.
\* (The statement of the claim; the code violates it.)
RefreshTokenNeverAuthenticates ==
  \A r \in Reqs :
    (reqs[r].kind = "logout" /\ reqs[r].tok.type = "refresh")
    => reqs[r].pc \notin {"lauth", "lupdate"} /\ reqs[r].resp.status # 200

\* C15: a request presenting an access token before its expiry passes
\* jwt.verify, and then passes authenticateToken exactly when the account is
\* active at that moment: whether a logout has cleared the account's refresh
\* pointer plays no part.
AuthenticateStep(r) ==
  LET q == reqs[r]
      p == reqs'[r]
  IN
  /\ (q.pc = "idle" /\ p.kind = "logout" /\ p.tok.type = "access"
        /\ clock < TokenExp(p.tok)) =>
       p.pc = "lauth"
  /\ (q.kind = "logout" /\ q.pc = "lauth" /\ p.pc # "lauth") =>
       IF users[q.userId].is_active
       THEN p.pc = "lupdate"
       ELSE p.pc = "done" /\ p.resp.status = 401

CounterStep(r) ==
  LET q == reqs[r]
      p == reqs'[r]
  IN
  (q.kind = "login" /\ q.pc = "incr" /\ p.pc # "incr"
     /\ clock - users[q.userId].last_failed_login >= lockoutTime) =>
    users'[q.userId].failed_login_attempts = 1

StaleFailuresNotCounted ==
  [][/\ \A u \in Users :
          (users[u].failed_login_attempts # 0 /\ users'[u].failed_login_attempts = 0)
          => \E r \in Reqs :
               /\ reqs[r].kind = "login"
               /\ reqs[r].userId = u
               /\ \/ reqs[r].pc = "succ"
                  \/ /\ reqs[r].pc = "reset"
                     /\ reqs[r].checkTime - reqs[r].user.last_failed_login >= lockoutTime
     /\ \A r \in Reqs : CounterStep(r)]_vars

\* C17: the handler that reads an active account's row with
\* FAILED_LOGIN_LIMIT failures or more answers ACCOUNT_LOCKED exactly when
\* the last failure is less than lockoutTime back, and otherwise sets the
\* count to 0 and compares the password, a mismatch adding 1 and setting the
\* failure time to now; the proxy refuses exactly when the e-mail's entry
\* counts MAX_ATTEMPTS or more and is less than LOCKOUT_DURATION old, and
\* drops an entry that old.
BoundaryStep(r) ==
  LET q == reqs[r]
      p == reqs'[r]
  IN
  /\ (q.kind = "login" /\ q.pc = "select" /\ p.pc # "select") =>
       \A u \in FindByEmail(q.email) :
         (users[u].is_active /\ users[u].failed_login_attempts >= FAILED_LOGIN_LIMIT)
         => IF clock - users[u].last_failed_login < lockoutTime
            THEN p.site = "locked" /\ p.resp.code = "ACCOUNT_LOCKED"
            ELSE p.pc = "reset" /\ p.site = "none" /\ users' = users
  /\ (q.kind = "login" /\ q.pc = "reset" /\ p.pc # "reset") =>
       /\ users'[q.userId].failed_login_attempts = 0
       /\ p.compared
       /\ p.pc \in {"succ", "incr"}
  /\ (q.kind = "login" /\ q.pc = "incr" /\ p.pc # "incr") =>
       /\ users'[q.userId].failed_login_attempts =
            users[q.userId].failed_login_attempts + 1
       /\ users'[q.userId].last_failed_login = clock
  /\ (q.pc = "idle" /\ p.kind = "login" /\ p.via = "proxy") =>
       LET e == loginAttempts[p.email]
           fresh == e # NoAttempts /\ clock - e.lastAttempt < LOCKOUT_DURATION
       IN
       /\ p.site = "proxy_limit" <=> (fresh /\ e.count >= MAX_ATTEMPTS)
       /\ (e # NoAttempts /\ ~fresh) => loginAttempts'[p.email] = NoAttempts

LockoutBoundary == [][\A r \in Reqs : BoundaryStep(r)]_vars

\* C17, witness: a login with a wrong password, read exactly lockoutTime
\* after the last of FAILED_LOGIN_LIMIT failures, was not locked out, and the
\* account's count is now 1.
FailureAtBoundaryStartsAnew ==
  \E r \in AnsweredReqs("login") :
    /\ reqs[r].site = "bad_password"
    /\ reqs[r].user.failed_login_attempts >= FAILED_LOGIN_LIMIT
    /\ reqs[r].checkTime - reqs[r].user.last_failed_login = lockoutTime
    /\ users[reqs[r].userId].failed_login_attempts = 1
    /\ users[reqs[r].userId].last_failed_login = reqs[r].checkTime

\* C18: every resolution of a role and stored permissions returns the role's
\* permissions together with the parsed stored ones, each once, whatever an
\* earlier call returned. (The statement of the claim; it fails for the
\* roles for which C20 fails.)
ResolvedIsUnion ==
  call.fn = "getUserPermissions" =>
    LET base == getPermissionsForRole(call.args[1])
        list == call.result
    IN
    /\ base.t = "array"
    /\ list.t = "array"
    /\ Range(list.v) = Range(base.v) \cup Range(parsePermissions(call.args[2]))
    /\ \A i, j \in DOMAIN list.v : list.v[i] = list.v[j] => i = j

\* The entries a stored value lists, whatever its representation: an array's
\* items, a string's comma-separated parts, the entries of the values of an
\* object, those of the value a JSON text encodes.
RECURSIVE Entries(_)
Entries(stored) ==
  IF stored.t = "array" THEN Range(stored.v)
  ELSE IF stored.t = "string" THEN Range(SplitTrim(stored.v))
  ELSE IF stored.t = "object" THEN
    UNION {Range(SplitTrim(stored.v[i])) : i \in DOMAIN stored.v}
  ELSE IF stored.t = "json" THEN Entries(stored.v[1])
  ELSE {}

\* C19: whatever the representation of the stored permissions, the parsed
\* list never holds "all", and holds system:full_access where the stored
\* value lists "all". (The statement of the claim; the code violates it.)
AllBecomesSentinel ==
  call.fn = "parsePermissions" =>
    /\ "all" \notin Range(call.result.v)
    /\ "all" \in Entries(call.args[1]) =>
         "system:full_access" \in Range(call.result.v)

\* C20: for a role that is not in the table, getPermissionsForRole returns
\* the permissions of role user and getManageableRoles the empty list, and
\* canManageRole returns false when either role is not in the table. (The
\* statement of the claim; the code violates it.)
UnknownRoleFailsClosed ==
  /\ (call.fn = "getPermissionsForRole" /\ call.args[1] \notin DOMAIN ROLE_PERMISSIONS)
       => call.result = JsArray(ROLE_PERMISSIONS["user"])
  /\ (call.fn = "getManageableRoles" /\ call.args[1] \notin DOMAIN roleHierarchy)
       => call.result = JsArray(<<>>)
  /\ (call.fn = "canManageRole"
        /\ \E i \in 1..2 : call.args[i] \notin DOMAIN roleHierarchy)
       => call.result = JsBoolean(FALSE)

\* C21: the step in which the INSERT of a request's audit row fails changes
\* neither the response its caller has received nor the users table, the
\* rate-limit windows, the proxy's attempts or the tokens issued: the state
\* is that of the run where the row is inserted, but for the row.
AuditStep(r) ==
  (reqs'[r].auditLost /\ ~reqs[r].auditLost) =>
    /\ reqs[r].kind \in {"login", "logout"}
    /\ reqs' = [reqs EXCEPT ![r].audit = NoRow, ![r].auditLost = TRUE]
    /\ CallerResp(reqs'[r]) = CallerResp(reqs[r])
    /\ UNCHANGED <<users, rateLimitStore, loginAttempts, issued, superseded, revoked>>

RetryAfterStep(r) ==
  (reqs'[r].site = "rate_limit" /\ reqs[r].site # "rate_limit") =>
    /\ reqs'[r].retryAfter = rateLimitStore'[reqs'[r].ip].resetTime - clock
    /\ reqs'[r].retryAfter > 0

RetryAfterPositive == [][\A r \in Reqs : RetryAfterStep(r)]_vars

\* C23: a request passes authorizePermission(required) exactly when every
\* required permission is in the set resolved from the account's role and
\* stored permissions; so it passes whenever the role grants them. (The
\* statement of the claim; the code violates it.)
AuthorizedByResolvedSet ==
  call.fn = "authorizePermission" =>
    LET resolved == getUserPermissions(call.args[1], call.args[2])
    IN call.result = JsBoolean(Range(call.args[3]) \subseteq Range(resolved.v))

\* C24: the permissions of every role of the table are among those of
\* super_admin. (The statement of the claim; the table violates it.)
SuperAdminHasAll ==
  (call.fn = "getPermissionsForRole" /\ call.args[1] \in DOMAIN ROLE_PERMISSIONS) =>
    Range(call.result.v) \subseteq Range(getPermissionsForRole("super_admin").v)

\* C25: a login refused because the account is locked or because a rate
\* limit was reached changes neither the account's failed_login_attempts and
\* last_failed_login nor the proxy's count and time of the e-mail's attempts,
\* when the backend answers it and when the proxy relays the answer; and a
\* login with the right password that reads the row lockoutTime or more after
\* the last failure gets its token pair. (The statement of the claim; the
\* code violates it.)
RefusedStep(r) ==
  LET q == reqs[r]
      p == reqs'[r]
      refusals == {"locked", "rate_limit", "proxy_limit"}
  IN
  /\ (p.kind = "login" /\ p.site \in refusals /\ q.site = "none") =>
       users' = users /\ loginAttempts' = loginAttempts
  /\ (q.kind = "login" /\ q.pc = "presp" /\ q.site \in refusals /\ p.pc = "done") =>
       users' = users /\ loginAttempts' = loginAttempts
  /\ (q.kind = "login" /\ q.pc = "done" /\ q.password = "good"
        /\ q.site \notin refusals /\ q.user.is_active
        /\ q.user.failed_login_attempts >= FAILED_LOGIN_LIMIT
        /\ q.checkTime - q.user.last_failed_login >= lockoutTime) =>
       CallerResp(q).status = 200 /\ ~Tokenless(CallerResp(q))

RefusalsLeaveCounters == [][\A r \in Reqs : RefusedStep(r)]_vars

\* C26: however concurrent logins interleave, an account's
\* failed_login_attempts, which counts the failed comparisons since it was
\* last set to zero, never exceeds FAILED_LOGIN_LIMIT. (The statement of the
\* claim; the code violates it.)
FailedCountBounded ==
  \A u \in Users : users[u].failed_login_attempts <= FAILED_LOGIN_LIMIT

\* C27: a login or refresh that reads the row of an account whose is_active
\* is false goes on neither to sign a token pair nor to store a refresh
\* token: it is answered at once, without tokens. (The statement of the
\* claim; the code violates it.)
InactiveReadStep(r) ==
  LET q == reqs[r]
      p == reqs'[r]
      refused == p.pc = "done" /\ p.resp.status # 200 /\ Tokenless(p.resp)
  IN
  /\ (q.kind = "login" /\ q.pc = "select" /\ p.pc # "select") =>
       \A u \in FindByEmail(q.email) : ~users[u].is_active => refused
  /\ (q.kind = "refresh" /\ q.pc = "rselect" /\ p.pc # "rselect") =>
       \A u \in FindByRefreshToken(q.userId, q.tok) : ~users[u].is_active => refused

InactiveGetsNoTokens == [][\A r \in Reqs : InactiveReadStep(r)]_vars

\* C28: the refresh token a login or a refresh returns is none of the tokens
\* issued before, and no refresh token that a refresh has consumed is an
\* account's stored refresh_token. (The statement of the claim; the code
\* violates it.)
IssuanceStep(r) ==
  (reqs'[r].resp.status = 200 /\ reqs[r].resp = NoResp
     /\ reqs'[r].kind \in {"login", "refresh"}) =>
    reqs'[r].resp.refreshToken \notin issued

RefreshTokensFresh ==
  [][/\ \A r \in Reqs : IssuanceStep(r)
     /\ \A u \in Users : users'[u].refresh_token \notin superseded']_vars

\* C29: an account's role changes to R only by the request of an active
\* account whose role can manage R, and becomes super_admin only by the
\* request of a super_admin. (The statement of the claim; the code violates
\* it.)
RoleStep(u) ==
  users'[u].role # users[u].role =>
    \E actor \in Users :
      /\ users[actor].is_active
      /\ canManageRole(users[actor].role, users'[u].role) = JsBoolean(TRUE)
      /\ users'[u].role = "super_admin" => users[actor].role = "super_admin"

RoleChangeNeedsCanManage == [][\A u \in Users : RoleStep(u)]_vars

\* C30: every login with a wrong password that no rate limit refuses gets,
\* whether or not its e-mail names an account and whatever the account's
\* state, the answer a login for an unknown e-mail gets on the same route.
\* (The statement of the claim; the code violates it.)
WrongSecretTellsNothing ==
  \A r \in AnsweredReqs("login") :
    (reqs[r].password = "bad" /\ reqs[r].site \notin {"rate_limit", "proxy_limit"})
    => SameOutcome(CallerResp(reqs[r]), Relayed(reqs[r].via, UnknownUserError))

====
